---- MODULE Spec2Model ----
(***************************************************************************)
(* Model of subtitle_ai_translator/main.py: the streaming pass of          *)
(* extract_and_translate_from_vtt over the lines of a VTT document, with   *)
(* the translation backend (translate_batch -> model.generate) as an       *)
(* external call whose outcome the pipeline does not control.              *)
(*                                                                         *)
(* A line is a sequence of one-character strings, so that str.strip() and  *)
(* the timestamp regex are computed on characters as the code does.        *)
(***************************************************************************)
EXTENDS Integers, Sequences, FiniteSets, TLC

(* ---------------------------------------------------------------- bounds *)
MaxLen == 4
MaxBatchSize == 3

(* ------------------------------------------------------------ characters *)
Digit == {"0", "1", "2", "3", "4", "5", "6", "7", "8", "9"}

\* str.strip() with no argument removes whitespace; a line read in text mode
\* (universal newlines) holds no "\r".
Whitespace == {" ", "\t", "\n"}

NL == <<"\n">>

\* r'^\d{2}:\d{2}(?::\d{2})?\.\d{3}' : the optional group gives two shapes.
\* "D" stands for the class \d, every other token is a literal character.
StampShort == <<"D", "D", ":", "D", "D", ".", "D", "D", "D">>
StampLong == <<"D", "D", ":", "D", "D", ":", "D", "D", ".", "D", "D", "D">>
Arrow == <<" ", "-", "-", ">", " ">>

PrefixMatches(p, s) ==
    /\ Len(s) >= Len(p)
    /\ \A i \in 1..Len(p) :
          IF p[i] = "D" THEN s[i] \in Digit ELSE s[i] = p[i]

\* (variant: the pattern required to cover the whole text, as fullmatch does)
timestamp_pattern_full(s) ==
    \E a \in {StampShort, StampLong} : \E b \in {StampShort, StampLong} :
        PrefixMatches(a \o Arrow \o b, s) /\ Len(s) = Len(a \o Arrow \o b)

\* timestamp_pattern.match(s): anchored at the start, not at the end.
timestamp_pattern(s) ==
    \E a \in {StampShort, StampLong} : \E b \in {StampShort, StampLong} :
        PrefixMatches(a \o Arrow \o b, s)

SetMin(S) == CHOOSE x \in S : \A y \in S : x <= y
SetMax(S) == CHOOSE x \in S : \A y \in S : x >= y

\* line.strip()
strip(s) ==
    LET keep == {i \in 1..Len(s) : s[i] \notin Whitespace}
    IN  IF keep = {} THEN <<>> ELSE SubSeq(s, SetMin(keep), SetMax(keep))


(* ----------------------------------------------------------- input lines *)
TsShort == <<"0","0",":","0","1",".","0","0","0"," ","-","-",">"," ",
             "0","0",":","0","2",".","5","0","0">>
TsLong == <<"0","0",":","0","0",":","0","3",".","0","0","0"," ","-","-",">"," ",
            "0","0",":","0","4",".","0","0","0">>
\* a single arrow dash: no timestamp range, hence dialogue
TsBroken == <<"0","0",":","0","1",".","0","0","0"," ","-",">"," ",
              "0","0",":","0","2",".","5","0","0">>

LineBlank == NL
LineTab == <<"\t">> \o NL
LineCue == <<" ">> \o TsLong \o <<" ", "a", ":", "s">> \o NL
LineHi == <<"H", "i">> \o NL
LinePad == <<" ", "y", " ", "o", "\t">> \o NL
LineArrow == TsBroken \o NL

\* lines as file iteration yields them: each ends with its newline ...
LinePool == {LineBlank, LineTab, LineCue, LineHi, LinePad, LineArrow}
\* ... except that the last line of a file may lack one
LastLinePool == LinePool \cup {<<"H", "i">>, TsShort}

Documents ==
    {<<>>} \cup
    UNION {{d \in [1..n -> LastLinePool] :
               \A i \in 1..(n - 1) : d[i] \in LinePool} : n \in 1..MaxLen}

(* ------------------------------------------- lines for classification *)
\* Lines put together from a leading part, a first stamp, a separator, a
\* second stamp, a trailing part and the line end, each part well formed or
\* not, and some lines that are no timestamp range at all.
LeadParts == {<<>>, <<" ">>, <<"\t", " ">>}
StampParts ==
    { <<"0","0",":","0","1",".","0","0","0">>,
      <<"0","1",":","0","0",":","0","3",".","2","5","0">>,
      <<"0",":","0","1",".","0","0","0">>,
      <<"0","0",":","0","1",".","0","0">>,
      <<"0","0",":","0","1",",","0","0","0">>,
      <<"0","0",":","0","0",":","0","0",":","0","3",".","0","0","0">> }
SeparatorParts ==
    { <<" ","-","-",">"," ">>, <<" ","-",">"," ">>, <<"-","-",">">>,
      <<" "," ","-","-",">"," ">> }
TrailParts == {<<>>, <<" ","a",":","s">>, <<"5">>, <<"x"," ">>}
EndParts == {<<>>, NL}

RangeLikeLines ==
    {l \o a \o sep \o b \o t \o e :
        l \in LeadParts, a \in StampParts, sep \in SeparatorParts,
        b \in StampParts, t \in TrailParts, e \in EndParts}

OtherLines ==
    { NL, <<"\t">> \o NL, <<" ">>, <<" ", "\t", " ">> \o NL,
      <<"H", "i">> \o NL, <<" ", "y", " ", "o", "\t">> \o NL,
      <<"0","0",":","0","1",".","0","0","0">> \o NL,
      <<"-","-",">"," ">> \o NL, <<"1">> \o NL }

ClassifyLines == RangeLikeLines \cup OtherLines

\* the condition of the if on line 152
classify(line) == timestamp_pattern(strip(line)) \/ strip(line) = <<>>

\* ... evaluated once for every line a document can hold
Classified == [line \in LastLinePool \cup ClassifyLines |-> classify(line)]

IsStructural(line) == Classified[line]

\* TranslatorConfig.batch_size is an unvalidated int field
BatchSizes == 0..MaxBatchSize

(* ----------------------------------------------------------------- state *)
VARIABLES
    doc,             \* the lines the iteration over vtt_file will yield
    src_readable,    \* whether open(file_path, 'r') succeeds
    batch_size,      \* config.batch_size
    pc,              \* position of the run in extract_and_translate_from_vtt
    pos,             \* index in doc of the line the for loop yields next
    subtitle_batch,  \* the local list subtitle_batch
    dest_opened,     \* open(output_path, 'w') has created/truncated the file
    out,             \* the strings written to out_file, in order
    out_kind,        \* history: the write statement behind each entry of out
    calls,           \* history: text_batch of every translate_batch call
    results,         \* history: the list every returned call returned
    pair             \* two activations of the function side by side: the
                     \* locals and files of each (empty when one run alone
                     \* is looked at)

\* the run looked at alone
solo == <<doc, src_readable, batch_size, pc, pos, subtitle_batch,
          dest_opened, out, out_kind, calls, results>>

vars == <<doc, src_readable, batch_size, pc, pos, subtitle_batch,
          dest_opened, out, out_kind, calls, results, pair>>

CallPcs == {"call_marker", "call_size", "call_final"}

(* --------------------------------------------------------------- backend *)
\* What the backend makes of one entry. The pipeline never inspects it.
Translate(text) == <<"#">> \o text

AsTranslated(batch) == [k \in 1..Len(batch) |-> Translate(batch[k])]

\* The lists tokenizer.batch_decode may hand back for a batch: one entry per
\* input, or (a model generating fewer or more sequences than inputs) one
\* entry short or one entry long.
BackendReturns(batch) ==
    LET full == AsTranslated(batch)
    IN  {full, SubSeq(full, 1, Len(full) - 1), Append(full, <<"#">>)}

(* --------------------------------------------------------------- helpers *)
\* (variant: the translations of a flush written last to first)
WriteTranslationsReversed(o, translations) ==
    o \o [k \in 1..Len(translations) |->
            translations[Len(translations) + 1 - k] \o NL]

\* for translation in translations: out_file.write(translation + '\n')
WriteTranslations(o, translations) ==
    o \o [k \in 1..Len(translations) |-> translations[k] \o NL]

\* (variant: the structural line written trimmed, with a fresh newline)
WriteLineTrimmed(o, line) == Append(o, strip(line) \o NL)

\* out_file.write(line)
WriteLine(o, line) == Append(o, line)

\* (variant: the flush entered whatever the batch holds)
BatchPendingAlways(b) == TRUE

\* "if subtitle_batch:" -- truthiness of the list
BatchPending(b) == b # <<>>

\* (variant: the size flush one line late)
BatchFullLate(b, size) == Len(b) = size + 1

\* "if len(subtitle_batch) == config.batch_size:"
BatchFull(b, size) == Len(b) = size

Tags(n, tag) == [k \in 1..n |-> tag]

(* ------------------------------------------------------------------ Init *)
Init ==
    /\ \/ src_readable = TRUE /\ doc \in Documents
       \/ src_readable = FALSE /\ doc = <<>>
    /\ batch_size \in BatchSizes
    /\ pc = "start"
    /\ pos = 1
    /\ subtitle_batch = <<>>
    /\ dest_opened = FALSE
    /\ out = <<>>
    /\ out_kind = <<>>
    /\ calls = <<>>
    /\ results = <<>>
    /\ pair = <<>>

(* --------------------------------------------------------------- actions *)
\* (variant: the destination opened first)
OpenFilesDestFirst ==
    /\ pc = "start"
    /\ dest_opened' = TRUE
    /\ pc' = IF src_readable THEN "loop" ELSE "error"
    /\ UNCHANGED <<doc, src_readable, batch_size, pos, subtitle_batch,
                   out, out_kind, calls, results>>
    /\ UNCHANGED pair

\* with open(file_path, 'r') as vtt_file, open(output_path, 'w') as out_file:
\* the source is opened first; its failure leaves the with statement.
OpenFiles ==
    /\ pc = "start"
    /\ IF src_readable
         THEN pc' = "loop" /\ dest_opened' = TRUE
         ELSE pc' = "error" /\ dest_opened' = dest_opened
    /\ UNCHANGED <<doc, src_readable, batch_size, pos, subtitle_batch,
                   out, out_kind, calls, results>>
    /\ UNCHANGED pair

\* One pass of the for loop over a structural line, up to the backend call.
StructuralLine ==
    /\ pc = "loop"
    /\ pos <= Len(doc)
    /\ IsStructural(doc[pos])
    /\ IF BatchPending(subtitle_batch)
         THEN /\ pc' = "call_marker"
              /\ calls' = Append(calls, subtitle_batch)
              /\ UNCHANGED <<pos, out, out_kind>>
         ELSE /\ out' = WriteLine(out, doc[pos])
              /\ out_kind' = Append(out_kind, "marker")
              /\ pos' = pos + 1
              /\ UNCHANGED <<pc, calls>>
    /\ UNCHANGED <<doc, src_readable, batch_size, subtitle_batch,
                   dest_opened, results>>
    /\ UNCHANGED pair

\* (variant: the backend call dispatched and not awaited, the loop reading
\* on while it is in flight)
DialogueLineNoAwait ==
    /\ pc \in {"loop"} \cup CallPcs
    /\ pos <= Len(doc)
    /\ ~IsStructural(doc[pos])
    /\ subtitle_batch' = Append(subtitle_batch, strip(doc[pos]))
    /\ pos' = pos + 1
    /\ IF BatchFull(subtitle_batch', batch_size)
         THEN pc' = "call_size" /\ calls' = Append(calls, subtitle_batch')
         ELSE UNCHANGED <<pc, calls>>
    /\ UNCHANGED <<doc, src_readable, batch_size, dest_opened, out, out_kind,
                   results>>
    /\ UNCHANGED pair

\* One pass of the for loop over a dialogue line, up to the backend call.
DialogueLine ==
    /\ pc = "loop"
    /\ pos <= Len(doc)
    /\ ~IsStructural(doc[pos])
    /\ subtitle_batch' = Append(subtitle_batch, strip(doc[pos]))
    /\ pos' = pos + 1
    /\ IF BatchFull(subtitle_batch', batch_size)
         THEN pc' = "call_size" /\ calls' = Append(calls, subtitle_batch')
         ELSE UNCHANGED <<pc, calls>>
    /\ UNCHANGED <<doc, src_readable, batch_size, dest_opened, out, out_kind,
                   results>>
    /\ UNCHANGED pair

\* (variant: the function returns after the loop, the last batch forgotten)
EndOfInputNoFlush ==
    /\ pc = "loop"
    /\ pos > Len(doc)
    /\ pc' = "done"
    /\ UNCHANGED <<doc, src_readable, batch_size, pos, subtitle_batch,
                   dest_opened, out, out_kind, calls, results>>
    /\ UNCHANGED pair

\* The loop is exhausted: "# Handle the last batch".
EndOfInput ==
    /\ pc = "loop"
    /\ pos > Len(doc)
    /\ IF BatchPending(subtitle_batch)
         THEN pc' = "call_final" /\ calls' = Append(calls, subtitle_batch)
         ELSE pc' = "done" /\ UNCHANGED calls
    /\ UNCHANGED <<doc, src_readable, batch_size, pos, subtitle_batch,
                   dest_opened, out, out_kind, results>>
    /\ UNCHANGED pair

\* (variant: the reset after the size flush left out)
BackendReturnNoReset ==
    /\ pc \in CallPcs
    /\ \E translations \in BackendReturns(subtitle_batch) :
          /\ results' = Append(results, translations)
          /\ LET written == WriteTranslations(out, translations)
                 kinds == out_kind \o Tags(Len(translations), "translation")
             IN  IF pc = "call_marker"
                   THEN /\ out' = WriteLine(written, doc[pos])
                        /\ out_kind' = Append(kinds, "marker")
                        /\ subtitle_batch' = <<>>
                        /\ pos' = pos + 1
                        /\ pc' = "loop"
                   ELSE /\ out' = written
                        /\ out_kind' = kinds
                        /\ subtitle_batch' = subtitle_batch
                        /\ pos' = pos
                        /\ pc' = IF pc = "call_size" THEN "loop" ELSE "done"
    /\ UNCHANGED <<doc, src_readable, batch_size, dest_opened, calls>>
    /\ UNCHANGED pair

\* translate_batch returns; the statements after the call run to the next
\* line of the loop. The length of the returned list is not examined.
BackendReturn ==
    /\ pc \in CallPcs
    /\ \E translations \in BackendReturns(subtitle_batch) :
          /\ results' = Append(results, translations)
          /\ LET written == WriteTranslations(out, translations)
                 kinds == out_kind \o Tags(Len(translations), "translation")
             IN  CASE pc = "call_marker" ->
                        /\ out' = WriteLine(written, doc[pos])
                        /\ out_kind' = Append(kinds, "marker")
                        /\ subtitle_batch' = <<>>
                        /\ pos' = pos + 1
                        /\ pc' = "loop"
                   [] pc = "call_size" ->
                        /\ out' = written
                        /\ out_kind' = kinds
                        /\ subtitle_batch' = <<>>
                        /\ pos' = pos
                        /\ pc' = "loop"
                   [] pc = "call_final" ->
                        /\ out' = written
                        /\ out_kind' = kinds
                        /\ subtitle_batch' = subtitle_batch
                        /\ pos' = pos
                        /\ pc' = "done"
    /\ UNCHANGED <<doc, src_readable, batch_size, dest_opened, calls>>
    /\ UNCHANGED pair

\* (variant: the exception caught around the call, the batch dropped and the
\* loop resumed)
BackendRaiseSwallowed ==
    /\ pc \in CallPcs
    /\ pc' = "loop"
    /\ subtitle_batch' = <<>>
    /\ UNCHANGED <<doc, src_readable, batch_size, pos,
                   dest_opened, out, out_kind, calls, results>>
    /\ UNCHANGED pair

\* translate_batch raises: nothing catches it, the with block closes the
\* files and the exception leaves the function.
BackendRaise ==
    /\ pc \in CallPcs
    /\ pc' = "error"
    /\ UNCHANGED <<doc, src_readable, batch_size, pos, subtitle_batch,
                   dest_opened, out, out_kind, calls, results>>
    /\ UNCHANGED pair

Next ==
    \/ OpenFiles
    \/ StructuralLine
    \/ DialogueLine
    \/ EndOfInput
    \/ BackendReturn
    \/ BackendRaise

Spec == Init /\ [][Next]_vars

(* ------------------------------------------------ two runs side by side *)
\* Two activations of extract_and_translate_from_vtt, each on its own input
\* and output file, their statements interleaved. An activation is a record
\* of what the function binds: its arguments, its local list, its position
\* in the body and in its input, its output file, and the history of its
\* backend calls. The steps are those of the run alone, read off a record.
MaxPairLen == 2

Runs == {1, 2}

PairLines == {LineBlank, LinePad}

PairDocuments == UNION {[1..n -> PairLines] : n \in 0..MaxPairLen}

StartOfRun(d, size) ==
    [doc |-> d, batch_size |-> size, pc |-> "start", pos |-> 1,
     subtitle_batch |-> <<>>, out |-> <<>>, calls |-> <<>>, results |-> <<>>]

RunOpenFiles(a) ==
    IF a.pc = "start" THEN {[a EXCEPT !.pc = "loop"]} ELSE {}

RunStructuralLine(a) ==
    IF a.pc = "loop" /\ a.pos <= Len(a.doc) /\ IsStructural(a.doc[a.pos])
      THEN {IF BatchPending(a.subtitle_batch)
              THEN [a EXCEPT !.pc = "call_marker",
                             !.calls = Append(@, a.subtitle_batch)]
              ELSE [a EXCEPT !.out = WriteLine(@, a.doc[a.pos]),
                             !.pos = @ + 1]}
      ELSE {}

RunDialogueLine(a) ==
    IF a.pc = "loop" /\ a.pos <= Len(a.doc) /\ ~IsStructural(a.doc[a.pos])
      THEN LET b == Append(a.subtitle_batch, strip(a.doc[a.pos]))
           IN  {IF BatchFull(b, a.batch_size)
                  THEN [a EXCEPT !.subtitle_batch = b, !.pos = @ + 1,
                                 !.pc = "call_size", !.calls = Append(@, b)]
                  ELSE [a EXCEPT !.subtitle_batch = b, !.pos = @ + 1]}
      ELSE {}

RunEndOfInput(a) ==
    IF a.pc = "loop" /\ a.pos > Len(a.doc)
      THEN {IF BatchPending(a.subtitle_batch)
              THEN [a EXCEPT !.pc = "call_final",
                             !.calls = Append(@, a.subtitle_batch)]
              ELSE [a EXCEPT !.pc = "done"]}
      ELSE {}

RunBackendReturn(a) ==
    IF a.pc \in CallPcs
      THEN {LET written == WriteTranslations(a.out, t)
            IN  CASE a.pc = "call_marker" ->
                       [a EXCEPT !.results = Append(@, t),
                                 !.out = WriteLine(written, a.doc[a.pos]),
                                 !.subtitle_batch = <<>>,
                                 !.pos = @ + 1, !.pc = "loop"]
                  [] a.pc = "call_size" ->
                       [a EXCEPT !.results = Append(@, t), !.out = written,
                                 !.subtitle_batch = <<>>, !.pc = "loop"]
                  [] a.pc = "call_final" ->
                       [a EXCEPT !.results = Append(@, t), !.out = written,
                                 !.pc = "done"]
              : t \in BackendReturns(a.subtitle_batch)}
      ELSE {}

RunBackendRaise(a) ==
    IF a.pc \in CallPcs THEN {[a EXCEPT !.pc = "error"]} ELSE {}

\* every state the run alone can step to from a
RunSucc(a) ==
    RunOpenFiles(a) \cup RunStructuralLine(a) \cup RunDialogueLine(a)
       \cup RunEndOfInput(a) \cup RunBackendReturn(a) \cup RunBackendRaise(a)

\* (variant: subtitle_batch one module-level list that all activations use)
StoreSharedBatch(rs, r, b) ==
    [s \in DOMAIN rs |->
        IF s = r THEN b
        ELSE [rs[s] EXCEPT !.subtitle_batch = b.subtitle_batch]]

\* A step of activation r rebinds the names of r's own frame: the list is
\* created by "subtitle_batch = []" in the body, the files by the with.
Store(rs, r, b) == [rs EXCEPT ![r] = b]

InitPair ==
    /\ pair \in [Runs -> {StartOfRun(d, size) :
                             d \in PairDocuments, size \in 1..2}]
    /\ doc = <<>>
    /\ src_readable = TRUE
    /\ batch_size = 1
    /\ pc = "start"
    /\ pos = 1
    /\ subtitle_batch = <<>>
    /\ dest_opened = FALSE
    /\ out = <<>>
    /\ out_kind = <<>>
    /\ calls = <<>>
    /\ results = <<>>

PairOpenFiles ==
    \E r \in Runs : \E b \in RunOpenFiles(pair[r]) :
        pair' = Store(pair, r, b) /\ UNCHANGED solo

PairStructuralLine ==
    \E r \in Runs : \E b \in RunStructuralLine(pair[r]) :
        pair' = Store(pair, r, b) /\ UNCHANGED solo

PairDialogueLine ==
    \E r \in Runs : \E b \in RunDialogueLine(pair[r]) :
        pair' = Store(pair, r, b) /\ UNCHANGED solo

PairEndOfInput ==
    \E r \in Runs : \E b \in RunEndOfInput(pair[r]) :
        pair' = Store(pair, r, b) /\ UNCHANGED solo

PairBackendReturn ==
    \E r \in Runs : \E b \in RunBackendReturn(pair[r]) :
        pair' = Store(pair, r, b) /\ UNCHANGED solo

PairBackendRaise ==
    \E r \in Runs : \E b \in RunBackendRaise(pair[r]) :
        pair' = Store(pair, r, b) /\ UNCHANGED solo

NextPair ==
    \/ PairOpenFiles
    \/ PairStructuralLine
    \/ PairDialogueLine
    \/ PairEndOfInput
    \/ PairBackendReturn
    \/ PairBackendRaise

PairSpec == InitPair /\ [][NextPair]_vars

\* The run over a file of one line, the line drawn from ClassifyLines.
InitClassify ==
    /\ src_readable = TRUE
    /\ doc \in {<<line>> : line \in ClassifyLines}
    /\ batch_size \in 1..2
    /\ pc = "start"
    /\ pos = 1
    /\ subtitle_batch = <<>>
    /\ dest_opened = FALSE
    /\ out = <<>>
    /\ out_kind = <<>>
    /\ calls = <<>>
    /\ results = <<>>
    /\ pair = <<>>

ClassifySpec == InitClassify /\ [][Next]_vars

\* The run with a backend that always returns. The function is one
\* sequential thread: as long as a statement can run, one does.
NextReturning ==
    \/ OpenFiles
    \/ StructuralLine
    \/ DialogueLine
    \/ EndOfInput
    \/ BackendReturn

LiveSpec == Init /\ [][NextReturning]_vars /\ WF_vars(NextReturning)

TypeOK ==
    /\ pc \in {"start", "loop", "done", "error"} \cup CallPcs
    /\ pos \in 1..(Len(doc) + 1)
    /\ Len(out) = Len(out_kind)
    /\ Len(results) <= Len(calls)

(* ------------------------------------------------- vocabulary of claims *)
RECURSIVE Flatten(_)
Flatten(ss) == IF ss = <<>> THEN <<>> ELSE Head(ss) \o Flatten(Tail(ss))

\* the entries of s whose index satisfies keep, in order
RECURSIVE PickFrom(_, _, _)
PickFrom(s, keep, i) ==
    IF i > Len(s) THEN <<>>
    ELSE (IF i \in keep THEN <<s[i]>> ELSE <<>>) \o PickFrom(s, keep, i + 1)

StructuralIn(d) == PickFrom(d, {i \in 1..Len(d) : IsStructural(d[i])}, 1)

\* what the marker write statement put into the output, in order
MarkersWritten ==
    PickFrom(out, {i \in 1..Len(out) : out_kind[i] = "marker"}, 1)

IsPrefix(s, t) == Len(s) <= Len(t) /\ s = SubSeq(t, 1, Len(s))

DialogueCount(d) == Cardinality({i \in 1..Len(d) : ~IsStructural(d[i])})

TranslatedCount ==
    Cardinality({i \in 1..Len(out) : out_kind[i] = "translation"})

\* the number of dialogue lines among d[1..i]
Rank(d, i) == Cardinality({j \in 1..i : ~IsStructural(d[j])})

\* every call that returned gave one result per entry of its batch
ContractKept == \A k \in 1..Len(results) : Len(results[k]) = Len(calls[k])

AllStructural(d) == \A i \in 1..Len(d) : IsStructural(d[i])

(* ---------------------------------------------------------------- claims *)

\* C1: with a backend that returns one result per batch entry, every entry
\* of the output stands at the index of the input line it comes from: a
\* structural line verbatim, a dialogue line as the result returned for its
\* trimmed text plus one newline (so a batch's lines precede the marker that
\* flushed it and a size flush adds no structural line); between lines the
\* output lacks only the pending batch, and a finished run has written as
\* many lines as it read.
C1_LineForLine ==
    (ContractKept /\ pc \in {"loop", "done"}) =>
        LET sent == Flatten(calls)
            got == Flatten(results)
        IN  /\ pc = "loop" => Len(out) = (pos - 1) - Len(subtitle_batch)
            /\ pc = "done" => Len(out) = Len(doc)
            /\ \A i \in 1..Len(out) :
                  IF IsStructural(doc[i])
                    THEN out[i] = doc[i] /\ out_kind[i] = "marker"
                    ELSE /\ sent[Rank(doc, i)] = strip(doc[i])
                         /\ out[i] = got[Rank(doc, i)] \o NL
                         /\ out_kind[i] = "translation"

\* a finished run with a size-triggered flush of two different lines
\* directly followed by a marker-triggered flush
C1_Witness ==
    /\ pc = "done"
    /\ ContractKept
    /\ batch_size = 2
    /\ Len(doc) >= 4
    /\ \A i \in 1..3 : ~IsStructural(doc[i])
    /\ IsStructural(doc[4])
    /\ doc[1] # doc[2]
    /\ Len(Flatten(results)) = 3
    /\ Len(out) = Len(doc)

\* C2: the structural lines written to the output are, in order and
\* verbatim, the structural lines of the input read so far, and all of them
\* once the run has finished.
C2_OrderPreserved ==
    /\ IsPrefix(MarkersWritten, StructuralIn(doc))
    /\ pc = "loop" => MarkersWritten = StructuralIn(SubSeq(doc, 1, pos - 1))
    /\ pc = "done" => MarkersWritten = StructuralIn(doc)

C2_Witness ==
    /\ pc = "done"
    /\ Len(StructuralIn(doc)) >= 2
    /\ StructuralIn(doc)[1] # StructuralIn(doc)[2]
    /\ DialogueCount(doc) >= 1
    /\ MarkersWritten = StructuralIn(doc)

\* C3: once a run has finished, the output holds as many translated lines
\* as the input holds dialogue lines.
C3_CardinalityPreserved ==
    pc = "done" => TranslatedCount = DialogueCount(doc)

\* C4: a returned list whose length differs from its batch's is fatal: the
\* run is in its error state and the output holds no line of that list.
C4_MismatchIsFatal ==
    ~ContractKept =>
        /\ pc = "error"
        /\ \A k \in 1..Len(results) :
              Len(results[k]) # Len(calls[k]) =>
                 /\ k = Len(results)
                 /\ TranslatedCount =
                       Len(Flatten(SubSeq(results, 1, k - 1)))

\* C5: the pending batch never holds more than batch_size entries.
C5_BatchBound ==
    0 <= Len(subtitle_batch) /\ Len(subtitle_batch) <= batch_size

\* C6: with batch_size <= 0 the run ends in an error before any file is
\* opened: no line is read, nothing is written, the backend is not called.
C6_InvalidBatchSizeRejected ==
    batch_size <= 0 =>
        /\ pc \in {"start", "error"}
        /\ ~dest_opened
        /\ pos = 1
        /\ subtitle_batch = <<>>
        /\ calls = <<>>

\* C7: a step that leaves a backend call without a returned list is the
\* call raising: it ends the run in its error state with the output, the
\* input position and the list of calls as they were (nothing of the
\* failing flush, not its marker, no second call), and the error state is
\* final, so no later line is read or written.
C7_Step ==
    /\ (pc \in CallPcs /\ results' = results) =>
          /\ pc' = "error"
          /\ out' = out
          /\ out_kind' = out_kind
          /\ calls' = calls
          /\ pos' = pos
    /\ pc = "error" => UNCHANGED vars

\* C7 holds of every step of every run.
C7_AbortKeepsEarlierOutput == [][C7_Step]_vars

\* the second call of a run raised after the first one's lines and a
\* marker had been written
C7_Witness ==
    /\ pc = "error"
    /\ Len(calls) = 2
    /\ Len(results) = 1
    /\ results[1] # <<>>
    /\ TranslatedCount = Len(results[1])
    /\ MarkersWritten # <<>>
    /\ pos <= Len(doc)

\* the lengths of the maximal runs of dialogue lines of d, in order
RECURSIVE RunLengths(_, _, _)
RunLengths(d, i, run) ==
    IF i > Len(d) THEN (IF run > 0 THEN <<run>> ELSE <<>>)
    ELSE IF IsStructural(d[i])
           THEN (IF run > 0 THEN <<run>> ELSE <<>>) \o RunLengths(d, i + 1, 0)
           ELSE RunLengths(d, i + 1, run + 1)

\* n lines in batches of b: b, ..., b and then n mod b when that is not 0
Chunks(n, b) ==
    [k \in 1..((n + b - 1) \div b) |->
        IF k * b <= n THEN b ELSE n % b]

RECURSIVE ChunkAll(_, _)
ChunkAll(runs, b) ==
    IF runs = <<>> THEN <<>> ELSE Chunks(Head(runs), b) \o ChunkAll(Tail(runs), b)

\* C8: with batch_size b >= 1, a finished run has made, for every run of N
\* consecutive dialogue lines, ceil(N/b) calls of b entries each but for a
\* last one of N mod b entries when that is not 0, and nothing else; a
\* backend that kept its contract has then put N lines into the output.
C8_CallLengths ==
    (pc = "done" /\ batch_size >= 1) =>
        /\ [k \in 1..Len(calls) |-> Len(calls[k])] =
              ChunkAll(RunLengths(doc, 1, 0), batch_size)
        /\ (AllStructural(doc) \/ DialogueCount(doc) = Len(doc)) =>
              Len(calls) = (DialogueCount(doc) + batch_size - 1) \div batch_size
        /\ ContractKept => TranslatedCount = DialogueCount(doc)

\* batch_size + 1 dialogue lines and no marker: a full batch, then one line
C8_Witness ==
    /\ pc = "done"
    /\ batch_size >= 2
    /\ Len(doc) = batch_size + 1
    /\ DialogueCount(doc) = Len(doc)
    /\ Len(calls) = 2
    /\ Len(calls[1]) = batch_size
    /\ Len(calls[2]) = 1
    /\ Len(out) = Len(doc)
    /\ MarkersWritten = <<>>

\* C9: a document of structural lines only is copied to the output as it
\* is, and the backend is never called.
C9_StructuralPassthrough ==
    AllStructural(doc) =>
        /\ calls = <<>>
        /\ pc = "loop" => out = SubSeq(doc, 1, pos - 1)
        /\ pc = "done" => out = doc

\* blank, whitespace-only and timestamp lines together
C9_Witness ==
    /\ pc = "done"
    /\ AllStructural(doc)
    /\ Len(doc) >= 3
    /\ \E i, j, k \in 1..Len(doc) :
          /\ doc[i] = LineBlank
          /\ doc[j] = LineTab
          /\ timestamp_pattern(strip(doc[k]))
    /\ out = doc

\* C10: no call is made with an empty batch; a marker leads to a call only
\* right after a dialogue line that is still pending, so a marker after a
\* marker only writes itself; the empty document writes nothing and makes
\* no call.
C10_NoEmptyBatchCall ==
    /\ \A k \in 1..Len(calls) : calls[k] # <<>>
    /\ pc = "call_marker" =>
          pos > 1 /\ ~IsStructural(doc[pos - 1]) /\ subtitle_batch # <<>>
    /\ doc = <<>> => out = <<>> /\ calls = <<>>

\* a dialogue line and then two blank lines: one call, both blanks written
C10_Witness ==
    /\ pc = "done"
    /\ Len(doc) >= 3
    /\ ~IsStructural(doc[1])
    /\ doc[2] = LineBlank
    /\ doc[3] = LineBlank
    /\ AllStructural(Tail(doc))
    /\ Len(calls) = 1
    /\ Len(MarkersWritten) = Len(doc) - 1

\* the trimmed text of the dialogue lines of d, in order
RECURSIVE TrimmedDialogue(_)
TrimmedDialogue(d) ==
    IF d = <<>> THEN <<>>
    ELSE (IF IsStructural(Head(d)) THEN <<>> ELSE <<strip(Head(d))>>)
            \o TrimmedDialogue(Tail(d))

\* C11: with a backend that always returns, a run on a readable document
\* finishes, and when it has finished the batches passed to the backend,
\* concatenated in call order, are the trimmed dialogue lines of the input
\* in input order: each sent once, none dropped, the trailing partial batch
\* included.
C11_AllDialogueSentOnce ==
    /\ src_readable => <>(pc = "done")
    /\ [](pc = "done" => Flatten(calls) = TrimmedDialogue(doc))

\* a finished run whose last call was the final flush of a partial batch
\* (the final flush leaves the batch in place), after an earlier call, with a
\* line that trimming changes
C11_Witness ==
    /\ pc = "done"
    /\ subtitle_batch # <<>>
    /\ Len(calls) >= 2
    /\ calls[Len(calls)] = subtitle_batch
    /\ Len(subtitle_batch) < batch_size
    /\ ~IsStructural(doc[Len(doc)])
    /\ \E i \in 1..Len(doc) : doc[i] = LinePad
    /\ Flatten(calls) = TrimmedDialogue(doc)

\* a step in which a backend call returns and its flush is carried out
FlushStep == pc \in CallPcs /\ results' # results

\* C12 (as stated): after every flush, whatever triggered it, the pending
\* batch is empty.
C12_ClearedAfterEveryFlush ==
    [][FlushStep => subtitle_batch' = <<>>]_vars

\* C12 (amended): after a flush triggered by a structural marker or by the
\* batch reaching batch_size the pending batch is empty; the final flush at
\* the end of the input leaves the list as it is and the run is over.
C12_ClearedAfterLoopFlush ==
    [][FlushStep =>
          IF pc = "call_final"
            THEN subtitle_batch' = subtitle_batch /\ pc' = "done"
            ELSE subtitle_batch' = <<>> /\ pc' = "loop"]_vars

\* between two lines, after a size flush and a marker flush, nothing pending
C12_Witness ==
    /\ pc = "loop"
    /\ Len(results) >= 2
    /\ Len(calls[1]) = batch_size
    /\ Len(calls[2]) < batch_size
    /\ subtitle_batch = <<>>

\* the calls made and not yet returned
InFlight == Len(calls) - Len(results)

\* C13: flushes are sequential. At most one call is in flight; while one is
\* in flight nothing is written and no further line is read until it
\* returns or raises; the lines of a flush are written by the step in which
\* its call returns; a call is made only when none is in flight, and the
\* batches passed so far, concatenated, are the trimmed dialogue lines of
\* the input read so far, i.e. flushes follow the order of the lines that
\* filled them.
C13_Step ==
    /\ InFlight \in {0, 1}
    /\ InFlight' \in {0, 1}
    /\ pc \in CallPcs => InFlight = 1
    /\ (pc \in CallPcs /\ results' = results) =>
          out' = out /\ pos' = pos /\ calls' = calls /\ pc' \notin {"loop", "done"}
    /\ out' # out /\ (\E i \in (Len(out) + 1)..Len(out') :
                         out_kind'[i] = "translation") =>
          pc \in CallPcs /\ Len(results') = Len(results) + 1
    /\ calls' # calls =>
          /\ InFlight = 0
          /\ pc = "loop"
          /\ Len(calls') = Len(calls) + 1
          /\ Flatten(calls') = TrimmedDialogue(SubSeq(doc, 1, pos' - 1))

C13_FlushesSequential == [][C13_Step]_vars

\* the second call of a run is in flight, the first one's lines are written
C13_Witness ==
    /\ pc \in CallPcs
    /\ Len(calls) = 2
    /\ Len(results) = 1
    /\ results[1] # <<>>
    /\ TranslatedCount = Len(results[1])
    /\ calls[1] # calls[2]

\* C16: when the source cannot be opened the run ends in its error state
\* at the first step, the destination has not been opened (neither created
\* nor truncated), nothing is written and the backend is not called.
C16_UnreadableSourceLeavesDestination ==
    ~src_readable =>
        /\ pc \in {"start", "error"}
        /\ ~dest_opened
        /\ out = <<>>
        /\ calls = <<>>
        /\ pos = 1

\* the open of the source has failed
C16_Witness ==
    /\ ~src_readable
    /\ pc = "error"
    /\ ~dest_opened
    /\ calls = <<>>

(* The classification rule in the words of C15, written without strip and   *)
(* without the pattern of the code.                                          *)
RECURSIVE DropLeadingBlank(_)
DropLeadingBlank(s) ==
    IF s = <<>> \/ Head(s) \notin {" ", "\t", "\n"} THEN s
    ELSE DropLeadingBlank(Tail(s))

Reversed(s) == [i \in 1..Len(s) |-> s[Len(s) + 1 - i]]

TrimmedText(s) == Reversed(DropLeadingBlank(Reversed(DropLeadingBlank(s))))

DigitsAt(s, i, n) ==
    /\ i + n - 1 <= Len(s)
    /\ \A k \in i..(i + n - 1) :
          s[k] \in {"0", "1", "2", "3", "4", "5", "6", "7", "8", "9"}

CharAt(s, i, c) == i <= Len(s) /\ s[i] = c

\* the indices right after a timestamp DD:DD.DDD or DD:DD:DD.DDD at index i
StampEnds(s, i) ==
    {j \in {i + 9} :
        /\ DigitsAt(s, i, 2) /\ CharAt(s, i + 2, ":")
        /\ DigitsAt(s, i + 3, 2) /\ CharAt(s, i + 5, ".")
        /\ DigitsAt(s, i + 6, 3)}
    \cup
    {j \in {i + 12} :
        /\ DigitsAt(s, i, 2) /\ CharAt(s, i + 2, ":")
        /\ DigitsAt(s, i + 3, 2) /\ CharAt(s, i + 5, ":")
        /\ DigitsAt(s, i + 6, 2) /\ CharAt(s, i + 8, ".")
        /\ DigitsAt(s, i + 9, 3)}

BeginsWithRange(t) ==
    \E j \in StampEnds(t, 1) :
        /\ CharAt(t, j, " ") /\ CharAt(t, j + 1, "-") /\ CharAt(t, j + 2, "-")
        /\ CharAt(t, j + 3, ">") /\ CharAt(t, j + 4, " ")
        /\ StampEnds(t, j + 5) # {}

MarkerByRule(line) ==
    TrimmedText(line) = <<>> \/ BeginsWithRange(TrimmedText(line))

\* C15: the run treats a line as a structural marker (no batch entry, the
\* line written as it is) exactly when its trimmed text is empty or begins
\* with a timestamp range, whatever follows the range; every other line goes
\* into the batch with its trimmed text, and nothing but the line decides.
C15_ClassificationRule ==
    /\ IsStructural(doc[1]) <=> MarkerByRule(doc[1])
    /\ (pc = "loop" /\ pos = 2 /\ calls = <<>>) =>
          IF MarkerByRule(doc[1])
            THEN out = doc /\ out_kind = <<"marker">> /\ subtitle_batch = <<>>
                 /\ calls = <<>>
            ELSE out = <<>> /\ subtitle_batch = <<TrimmedText(doc[1])>>
    /\ pc = "call_size" =>
          ~MarkerByRule(doc[1]) /\ calls = <<<<TrimmedText(doc[1])>>>>

\* a line with blanks in front, a long and a short stamp and text after the
\* second stamp has been written as a marker
C15_Witness ==
    /\ pc = "done"
    /\ out = doc
    /\ calls = <<>>
    /\ doc[1] \in RangeLikeLines
    /\ Head(doc[1]) = "\t"
    /\ Len(doc[1]) > Len(TrimmedText(doc[1])) + 2
    /\ BeginsWithRange(TrimmedText(doc[1]))
    /\ TrimmedText(doc[1])[Len(TrimmedText(doc[1]))] = "s"
    /\ StampEnds(TrimmedText(doc[1]), 1) = {13}

\* the run alone, as a record of the same shape as an activation
SoloAsRun ==
    [doc |-> doc, batch_size |-> batch_size, pc |-> pc, pos |-> pos,
     subtitle_batch |-> subtitle_batch, out |-> out, calls |-> calls,
     results |-> results]

\* (Spec) every step of the run alone on a readable source is a step of
\* RunSucc: the activations of PairSpec step as the run alone does.
SoloStepsAreRunSteps ==
    [][src_readable => SoloAsRun' \in RunSucc(SoloAsRun)]_solo

\* C14: two runs on independent documents do not touch each other. Under
\* every interleaving a step changes one activation only, and what it does
\* to that activation is a step the run alone takes from the same state: so
\* each activation's pending batch, calls and output go through the states
\* of that run executed alone, and its calls carry its own dialogue lines.
C14_Step ==
    /\ \A r \in Runs :
          pair'[r] = pair[r] \/ pair'[r] \in RunSucc(pair[r])
    /\ \E r \in Runs : \A s \in Runs \ {r} : pair'[s] = pair[s]
    /\ \A r \in Runs :
          IsPrefix(Flatten(pair'[r].calls), TrimmedDialogue(pair'[r].doc))

C14_RunsIndependent == [][C14_Step]_vars

\* both runs are in the middle of a flush at once, on different documents,
\* one of them after output of its own
C14_Witness ==
    /\ pair # <<>>
    /\ pair[1].pc = "call_size"
    /\ pair[2].pc = "call_marker"
    /\ pair[2].out = <<>>
    /\ pair[1].out # <<>>
    /\ pair[1].doc # pair[2].doc

====
